---- MODULE Spec2Model ----
(***************************************************************************)
(* Model of the SwarSeva citizen-services backend: the rules engine of the *)
(* Service model (server/src/models/Service.js: checkEligibility,          *)
(* calculateFees, validateDocuments) and the service handlers that reach   *)
(* the document store (server/src/controllers/auth.js).                    *)
(*                                                                         *)
(* JavaScript values are tagged records [t, v]; an object (userData, an    *)
(* update body) is a function whose DOMAIN is the set of properties that   *)
(* are present, so that "absent" (undefined), null, 0 and false differ.    *)
(***************************************************************************)
EXTENDS Integers, Sequences, FiniteSets, TLC

VARIABLES
    self,        \* the Service document a model method is called on (`this`)
    userData,    \* req.body of check-eligibility / calculate-fees
    documents,   \* req.body.documents of validate-documents
    today,       \* the clock read by new Date() in checkEligibility
    result,      \* the value returned by the last model-method call
    returned,    \* per model method, the value its last call returned and the day
    services,    \* the Service collection: id -> document or NoDoc
    response,    \* the last HTTP response sent by a service handler
    adminDeleteConfirmation,  \* process.env.ADMIN_DELETE_CONFIRMATION
    language,    \* the language code a text is requested in
    helpfulness, \* review.helpfulness: upvotes, downvotes and voters
    loginAttempts,  \* user.loginAttempts
    lockUntil,   \* user.lockUntil: Undef or the time the lock ends
    dateNow,     \* Date.now(), in units of TimeUnit
    failedAttempts  \* calls of incrementLoginAttempts since the last reset

vars == <<self, userData, documents, today, result, returned, services, response,
          adminDeleteConfirmation, language, helpfulness, loginAttempts, lockUntil,
          dateNow, failedAttempts>>

engineVars == <<self, userData, documents, today, result, returned>>
storeVars == <<services, response, adminDeleteConfirmation>>
reviewVars == <<helpfulness>>
accountVars == <<loginAttempts, lockUntil, dateNow, failedAttempts>>
otherVars == <<language, helpfulness, loginAttempts, lockUntil, dateNow, failedAttempts>>

-----------------------------------------------------------------------------
(* Bounds *)

MaxCriteria == 2
MaxFees == 2
MaxFactors == 2
MaxRequirements == 2
MaxDocuments == 2
MaxServices == 2

-----------------------------------------------------------------------------
(* JavaScript values *)

Undef == [t |-> "undef", v |-> 0]
Null == [t |-> "null", v |-> 0]
Num(n) == [t |-> "num", v |-> n]
Str(s) == [t |-> "str", v |-> s]
Bool(b) == [t |-> "bool", v |-> b]
Date(y, m, d) == [t |-> "date", v |-> <<y, m, d>>]
Obj(o) == [t |-> "obj", v |-> o]

\* obj.prop: undefined when the property is not present
Prop(o, p) == IF p \in DOMAIN o THEN o[p] ELSE Undef

\* Boolean(x) / truthiness
Truthy(x) ==
    CASE x.t = "undef" -> FALSE
      [] x.t = "null" -> FALSE
      [] x.t = "num" -> x.v # 0
      [] x.t = "str" -> x.v # ""
      [] x.t = "bool" -> x.v
      [] OTHER -> TRUE

\* x === y
StrictEq(x, y) == x.t = y.t /\ (x.t \in {"undef", "null"} \/ x.v = y.v)

\* The strings of the model, in JavaScript's (code unit) order
StrOrder == <<"", "Delhi", "Kerala", "female", "male", "other">>
StrRank(s) == CHOOSE i \in 1..Len(StrOrder) : StrOrder[i] = s

\* ToNumber(x) is NaN
IsNaN(x) == x.t \in {"undef", "str", "obj", "date"} /\ ~(x.t = "str" /\ x.v = "")
ToNumber(x) ==
    CASE x.t = "num" -> x.v
      [] x.t = "bool" -> IF x.v THEN 1 ELSE 0
      [] OTHER -> 0

\* x >= y and x <= y (abstract relational comparison)
GreaterEq(x, y) ==
    IF x.t = "str" /\ y.t = "str" THEN StrRank(x.v) >= StrRank(y.v)
    ELSE ~IsNaN(x) /\ ~IsNaN(y) /\ ToNumber(x) >= ToNumber(y)
LessEq(x, y) ==
    IF x.t = "str" /\ y.t = "str" THEN StrRank(x.v) <= StrRank(y.v)
    ELSE ~IsNaN(x) /\ ~IsNaN(y) /\ ToNumber(x) <= ToNumber(y)
LessThan(x, y) ==
    IF x.t = "str" /\ y.t = "str" THEN StrRank(x.v) < StrRank(y.v)
    ELSE ~IsNaN(x) /\ ~IsNaN(y) /\ ToNumber(x) < ToNumber(y)
GreaterThan(x, y) == LessThan(y, x)

\* array.includes(x) for an array of strings
Includes(arr, x) == \E i \in 1..Len(arr) : x.t = "str" /\ arr[i] = x.v

\* All sequences over S of length at most n
SeqUpTo(S, n) == UNION {[1..k -> S] : k \in 0..n}

-----------------------------------------------------------------------------
(* Eligibility engine: ServiceSchema.methods.checkEligibility.  The verdict *)
(* field eligible (true, false or 'unknown' in the source) is written as   *)
(* the strings "true", "false" and "unknown".                              *)

\* age of a person born on birth, on the day now (both <<year, month, day>>)
CalculateAgeMutant(now, birth) ==
    now[1] - birth[1] -
        (IF now[2] < birth[2] \/ (now[2] = birth[2] /\ now[3] <= birth[3])
         THEN 1 ELSE 0)

CalculateAge(now, birth) ==
    now[1] - birth[1] -
        (IF now[2] < birth[2] \/ (now[2] = birth[2] /\ now[3] < birth[3])
         THEN 1 ELSE 0)

\* the switch on criteria.criteriaType that reads the user value
UserValue(criteria, u, now) ==
    CASE criteria.criteriaType = "age" -> Num(CalculateAge(now, Prop(u, "dateOfBirth").v))
      [] criteria.criteriaType = "income" -> Prop(u, "income")
      [] criteria.criteriaType = "residence" ->
            IF Truthy(Prop(u, "address")) THEN Prop(Prop(u, "address").v, "state") ELSE Undef
      [] criteria.criteriaType = "education" ->
            IF Truthy(Prop(u, "education")) THEN Prop(Prop(u, "education").v, "level") ELSE Undef
      [] criteria.criteriaType = "gender" -> Prop(u, "gender")
      [] criteria.criteriaType = "marital" -> Prop(u, "maritalStatus")
      [] criteria.criteriaType = "occupation" -> Prop(u, "occupation")
      [] criteria.criteriaType = "category" -> Prop(u, "category")
      [] criteria.criteriaType = "disability" -> Prop(u, "hasDisability")
      [] OTHER -> Prop(u, criteria.criteriaType)

\* the two early returns of the forEach callback that record missing data
MissingDataMutant(criteria, u, now) ==
    IF criteria.criteriaType = "age"
    THEN IF ~Truthy(Prop(u, "dateOfBirth"))
         THEN <<[field |-> "dateOfBirth", criteria |-> criteria.name]>> ELSE <<>>
    ELSE IF UserValue(criteria, u, now).t = "undef"
              /\ criteria.validationMethod \notin {"boolean", "custom"}
         THEN <<[field |-> criteria.criteriaType, criteria |-> criteria.name]>> ELSE <<>>

MissingData(criteria, u, now) ==
    IF criteria.criteriaType = "age"
    THEN IF ~Truthy(Prop(u, "dateOfBirth"))
         THEN <<[field |-> "dateOfBirth", criteria |-> criteria.name]>> ELSE <<>>
    ELSE IF UserValue(criteria, u, now).t = "undef"
         THEN <<[field |-> criteria.criteriaType, criteria |-> criteria.name]>> ELSE <<>>

\* case 'range' of the switch on criteria.validationMethod
InRangeMutant(criteria, userValue) ==
    /\ (criteria.minValue.t = "null" \/ GreaterThan(userValue, criteria.minValue))
    /\ (criteria.maxValue.t = "null" \/ LessEq(userValue, criteria.maxValue))

InRange(criteria, userValue) ==
    /\ (criteria.minValue.t = "null" \/ GreaterEq(userValue, criteria.minValue))
    /\ (criteria.maxValue.t = "null" \/ LessEq(userValue, criteria.maxValue))

\* the switch on criteria.validationMethod
CriteriaResultMutant(criteria, userValue) ==
    CASE criteria.validationMethod = "range" -> InRange(criteria, userValue)
      [] criteria.validationMethod = "exact" -> GreaterEq(userValue, criteria.minValue)
      [] criteria.validationMethod = "minimum" -> GreaterEq(userValue, criteria.minValue)
      [] criteria.validationMethod = "maximum" -> LessEq(userValue, criteria.maxValue)
      [] criteria.validationMethod = "list" -> Includes(criteria.allowedValues, userValue)
      [] criteria.validationMethod = "boolean" -> userValue.t # "undef"
      [] criteria.validationMethod = "custom" -> TRUE
      [] OTHER -> FALSE

CriteriaResult(criteria, userValue) ==
    CASE criteria.validationMethod = "range" -> InRange(criteria, userValue)
      [] criteria.validationMethod = "exact" -> StrictEq(userValue, criteria.minValue)
      [] criteria.validationMethod = "minimum" -> GreaterEq(userValue, criteria.minValue)
      [] criteria.validationMethod = "maximum" -> LessEq(userValue, criteria.maxValue)
      [] criteria.validationMethod = "list" -> Includes(criteria.allowedValues, userValue)
      [] criteria.validationMethod = "boolean" -> Truthy(userValue)
      [] criteria.validationMethod = "custom" -> TRUE
      [] OTHER -> FALSE

\* one iteration of this.eligibilityCriteria.forEach
CheckCriterionMutant(results, criteria, u, now) ==
    LET missing == MissingData(criteria, u, now)
        userValue == UserValue(criteria, u, now)
    IN  IF Len(results.failedCriteria) > 0 \/ Len(results.missingData) > 0
        THEN results
        ELSE IF missing # <<>>
        THEN [results EXCEPT !.missingData = @ \o missing]
        ELSE IF ~CriteriaResult(criteria, userValue)
             THEN [results EXCEPT !.failedCriteria =
                      Append(@, [type |-> criteria.criteriaType,
                                 name |-> criteria.name,
                                 userValue |-> userValue])]
             ELSE results

CheckCriterion(results, criteria, u, now) ==
    LET missing == MissingData(criteria, u, now)
        userValue == UserValue(criteria, u, now)
    IN  IF missing # <<>>
        THEN [results EXCEPT !.missingData = @ \o missing]
        ELSE IF ~CriteriaResult(criteria, userValue)
             THEN [results EXCEPT !.failedCriteria =
                      Append(@, [type |-> criteria.criteriaType,
                                 name |-> criteria.name,
                                 userValue |-> userValue])]
             ELSE results

RECURSIVE ForEachCriterion(_, _, _, _)
ForEachCriterion(results, list, u, now) ==
    IF list = <<>> THEN results
    ELSE ForEachCriterion(CheckCriterion(results, Head(list), u, now), Tail(list), u, now)

\* the aggregate decision after the loop
VerdictMutant(results) ==
    IF Len(results.failedCriteria) > 0 \/ Len(results.missingData) > 0
    THEN [results EXCEPT !.eligible = "false",
                         !.message = "User does not meet eligibility criteria"]
    ELSE [results EXCEPT !.message = "User meets all eligibility criteria"]

Verdict(results) ==
    IF Len(results.failedCriteria) > 0
    THEN [results EXCEPT !.eligible = "false",
                         !.message = "User does not meet eligibility criteria"]
    ELSE IF Len(results.missingData) > 0
         THEN [results EXCEPT !.eligible = "unknown",
                              !.message = "Missing required information to determine eligibility"]
         ELSE [results EXCEPT !.message = "User meets all eligibility criteria"]

checkEligibility(svc, u, now) ==
    IF Len(svc.eligibilityCriteria) = 0
    THEN [eligible |-> "true", message |-> "No eligibility criteria specified"]
    ELSE Verdict(ForEachCriterion(
            [eligible |-> "true", message |-> "",
             failedCriteria |-> <<>>, missingData |-> <<>>],
            svc.eligibilityCriteria, u, now))

-----------------------------------------------------------------------------
(* Fee calculator: ServiceSchema.methods.calculateFees.  The multipliers   *)
(* 0.5, 1.5 and 0.75 are dyadic, so the floating-point products are exact; *)
(* amounts are held as integers in units of 1/Scale.                       *)

RECURSIVE Pow(_, _)
Pow(b, e) == IF e = 0 THEN 1 ELSE b * Pow(b, e - 1)
Scale == Pow(4, MaxFactors)
Rupees(n) == n * Scale
Times(x, num, den) == (x * num) \div den

IncomeLow == 300000
IncomeHigh == 1000000
SeniorAge == 60
MinorAge == 18

\* the callback of fee.waiver.eligibility.some
CategoryMatches(category, u) ==
    \/ category = "bpl" /\ Truthy(Prop(u, "isBPL"))
    \/ category = "senior" /\ GreaterEq(Prop(u, "age"), Num(SeniorAge))
    \/ category = "student" /\ Truthy(Prop(u, "isStudent"))
    \/ category = "disability" /\ Truthy(Prop(u, "hasDisability"))
    \/ category = "female" /\ StrictEq(Prop(u, "gender"), Str("female"))

EligibleForWaiver(fee, u) ==
    /\ Len(fee.waiver.eligibility) > 0
    /\ \E i \in 1..Len(fee.waiver.eligibility) : CategoryMatches(fee.waiver.eligibility[i], u)

\* the income branch of the variableFactors callback
IncomeFactor(feeAmount, factor, u) ==
    IF factor = "income" /\ Truthy(Prop(u, "income"))
    THEN IF LessThan(Prop(u, "income"), Num(IncomeLow)) THEN Times(feeAmount, 1, 2)
         ELSE IF GreaterThan(Prop(u, "income"), Num(IncomeHigh)) THEN Times(feeAmount, 3, 2)
         ELSE feeAmount
    ELSE feeAmount

\* the age branch of the variableFactors callback
AgeFactor(feeAmount, factor, u) ==
    IF factor = "age" /\ Truthy(Prop(u, "age"))
    THEN IF LessThan(Prop(u, "age"), Num(MinorAge)) THEN Times(feeAmount, 1, 2)
         ELSE IF GreaterEq(Prop(u, "age"), Num(SeniorAge)) THEN Times(feeAmount, 3, 4)
         ELSE feeAmount
    ELSE feeAmount

RECURSIVE ApplyFactors(_, _, _)
ApplyFactors(feeAmount, factors, u) ==
    IF factors = <<>> THEN feeAmount
    ELSE ApplyFactors(AgeFactor(IncomeFactor(feeAmount, Head(factors), u), Head(factors), u),
                      Tail(factors), u)

\* fee.waiver.description.en throws a TypeError when the waiver has no description
WaiverReasonThrows(fee) == fee.waiver.description.t = "undef"
WaiverReason(fee) ==
    IF Truthy(fee.waiver.description) THEN fee.waiver.description.v
    ELSE "Eligible for fee waiver"

ProcessFeeMutant(acc, fee, u) ==
    IF EligibleForWaiver(fee, u)
    THEN IF WaiverReasonThrows(fee)
         THEN acc
         ELSE [acc EXCEPT !.result.waivers =
                  Append(@, [feeType |-> fee.feeType, name |-> fee.name,
                             amount |-> fee.amount, reason |-> WaiverReason(fee)])]
    ELSE LET feeAmount == ApplyFactors(fee.amount, fee.variableFactors, u)
         IN  [acc EXCEPT !.result.breakdown =
                            Append(@, [feeType |-> fee.feeType, name |-> fee.name,
                                       amount |-> feeAmount,
                                       description |-> fee.description]),
                         !.result.totalAmount = @ + feeAmount]

\* one iteration of this.fees.forEach; acc.threw records an exception
ProcessFee(acc, fee, u) ==
    IF acc.threw THEN acc
    ELSE IF EligibleForWaiver(fee, u)
    THEN IF WaiverReasonThrows(fee)
         THEN [acc EXCEPT !.threw = TRUE]
         ELSE [acc EXCEPT !.result.waivers =
                  Append(@, [feeType |-> fee.feeType, name |-> fee.name,
                             amount |-> fee.amount, reason |-> WaiverReason(fee)])]
    ELSE LET feeAmount == ApplyFactors(fee.amount, fee.variableFactors, u)
         IN  [acc EXCEPT !.result.breakdown =
                            Append(@, [feeType |-> fee.feeType, name |-> fee.name,
                                       amount |-> feeAmount,
                                       description |-> fee.description]),
                         !.result.totalAmount = @ + feeAmount]

RECURSIVE ForEachFee(_, _, _)
ForEachFee(acc, list, u) ==
    IF list = <<>> THEN acc
    ELSE ForEachFee(ProcessFee(acc, Head(list), u), Tail(list), u)

calculateFees(svc, u) ==
    IF Len(svc.fees) = 0
    THEN [totalAmount |-> 0, currency |-> "INR", breakdown |-> <<>>,
          message |-> "No fees associated with this service"]
    ELSE LET init == [totalAmount |-> 0,
                      currency |-> IF svc.fees[1].currency # "" THEN svc.fees[1].currency
                                   ELSE "INR",
                      breakdown |-> <<>>, waivers |-> <<>>]
             acc == ForEachFee([threw |-> FALSE, result |-> init], svc.fees, u)
         IN  IF acc.threw
             THEN [totalAmount |-> 0, currency |-> "INR", breakdown |-> <<>>,
                   error |-> "Error calculating fees"]
             ELSE acc.result

-----------------------------------------------------------------------------
(* Text whose characters matter (file names, file types, slugs, ids) is a  *)
(* sequence of one-character strings.                                      *)

UpperCase == <<"A", "B", "C", "D", "E", "F", "G", "H", "I", "J", "K", "L", "M",
               "N", "O", "P", "Q", "R", "S", "T", "U", "V", "W", "X", "Y", "Z">>
LowerCase == <<"a", "b", "c", "d", "e", "f", "g", "h", "i", "j", "k", "l", "m",
               "n", "o", "p", "q", "r", "s", "t", "u", "v", "w", "x", "y", "z">>

\* the lower-case letter of every upper-case letter
LowerOf ==
    [c \in {UpperCase[i] : i \in 1..Len(UpperCase)} |->
        LowerCase[CHOOSE i \in 1..Len(UpperCase) : UpperCase[i] = c]]

ToLowerChar(c) == IF c \in DOMAIN LowerOf THEN LowerOf[c] ELSE c

\* String.prototype.toLowerCase
ToLowerCase(s) == [i \in 1..Len(s) |-> ToLowerChar(s[i])]

\* s.split('.').pop(): the text after the last '.', the whole text without one
SplitPop(s) ==
    LET dots == {i \in 1..Len(s) : s[i] = "."}
        last == IF dots = {} THEN 0 ELSE CHOOSE i \in dots : \A j \in dots : j <= i
    IN  SubSeq(s, last + 1, Len(s))

\* array.includes(x) for an array of texts
IncludesText(arr, x) == \E i \in 1..Len(arr) : arr[i] = x

-----------------------------------------------------------------------------
(* Document validator: ServiceSchema.methods.validateDocuments *)

\* the first pass: one entry per mandatory requirement without a document
FoundMutant(requirement, docs) == Len(docs) > 0

Found(requirement, docs) ==
    \E i \in 1..Len(docs) : docs[i].type = requirement.documentType

RECURSIVE MissingMandatory(_, _)
MissingMandatory(reqs, docs) ==
    IF reqs = <<>> THEN <<>>
    ELSE (IF Head(reqs).isMandatory /\ ~Found(Head(reqs), docs)
          THEN <<[type |-> Head(reqs).documentType, name |-> Head(reqs).name]>>
          ELSE <<>>) \o MissingMandatory(Tail(reqs), docs)

\* this.requirements.find(r => r.documentType === document.type): index or 0
FindRequirement(reqs, type) ==
    IF \E i \in 1..Len(reqs) : reqs[i].documentType = type
    THEN CHOOSE i \in 1..Len(reqs) :
            /\ reqs[i].documentType = type
            /\ \A j \in 1..(i - 1) : reqs[j].documentType # type
    ELSE 0

\* requirement.maxFileSizeKB && document.sizeKB > requirement.maxFileSizeKB
TooLargeMutant(requirement, document) ==
    /\ Truthy(requirement.maxFileSizeKB)
    /\ GreaterEq(document.sizeKB, requirement.maxFileSizeKB)

TooLarge(requirement, document) ==
    /\ Truthy(requirement.maxFileSizeKB)
    /\ GreaterThan(document.sizeKB, requirement.maxFileSizeKB)

\* one iteration of documents.forEach
ValidateDocumentMutant(res, reqs, document) ==
    LET k == FindRequirement(reqs, document.type)
        requirement == reqs[k]
    IN  IF k = 0
        THEN [res EXCEPT !.invalidDocuments =
                            Append(@, [type |-> document.type, reason |-> "not required"]),
                         !.valid = FALSE]
        ELSE IF /\ Len(requirement.allowedFileTypes) > 0
                /\ ~IncludesText(requirement.allowedFileTypes,
                                 ToLowerCase(SplitPop(document.file)))
        THEN [res EXCEPT !.invalidDocuments =
                            Append(@, [type |-> document.type, reason |-> "file type"]),
                         !.valid = FALSE]
        ELSE IF TooLarge(requirement, document)
        THEN [res EXCEPT !.invalidDocuments =
                            Append(@, [type |-> document.type, reason |-> "file size"]),
                         !.valid = FALSE]
        ELSE [res EXCEPT !.validDocuments =
                            Append(@, [type |-> document.type, name |-> requirement.name])]

ValidateDocument(res, reqs, document) ==
    LET k == FindRequirement(reqs, document.type)
        requirement == reqs[k]
    IN  IF k = 0
        THEN [res EXCEPT !.invalidDocuments =
                 Append(@, [type |-> document.type, reason |-> "not required"])]
        ELSE IF /\ Len(requirement.allowedFileTypes) > 0
                /\ ~IncludesText(requirement.allowedFileTypes,
                                 ToLowerCase(SplitPop(document.file)))
        THEN [res EXCEPT !.invalidDocuments =
                            Append(@, [type |-> document.type, reason |-> "file type"]),
                         !.valid = FALSE]
        ELSE IF TooLarge(requirement, document)
        THEN [res EXCEPT !.invalidDocuments =
                            Append(@, [type |-> document.type, reason |-> "file size"]),
                         !.valid = FALSE]
        ELSE [res EXCEPT !.validDocuments =
                            Append(@, [type |-> document.type, name |-> requirement.name])]

RECURSIVE ForEachDocument(_, _, _)
ForEachDocument(res, reqs, docs) ==
    IF docs = <<>> THEN res
    ELSE ForEachDocument(ValidateDocument(res, reqs, Head(docs)), reqs, Tail(docs))

\* the message chosen after both passes
ResultMessage(res) ==
    IF res.valid THEN "All required documents validated successfully"
    ELSE IF Len(res.missingMandatory) > 0 THEN "Missing mandatory documents"
    ELSE "Some documents failed validation"

\* docs is Undef (no array was passed) or Obj(<array of documents>)
validateDocuments(svc, docs) ==
    IF docs.t # "obj"
    THEN [valid |-> FALSE, message |-> "No documents provided or invalid format",
          missingMandatory |->
            [i \in 1..Len(SelectSeq(svc.requirements, LAMBDA r : r.isMandatory)) |->
                SelectSeq(svc.requirements, LAMBDA r : r.isMandatory)[i].documentType]]
    ELSE LET missing == MissingMandatory(svc.requirements, docs.v)
             res == ForEachDocument([valid |-> missing = <<>>,
                                     validDocuments |-> <<>>,
                                     invalidDocuments |-> <<>>,
                                     missingMandatory |-> missing,
                                     message |-> ""],
                                    svc.requirements, docs.v)
         IN  [res EXCEPT !.message = ResultMessage(res)]

-----------------------------------------------------------------------------
(* Inputs of the rules engine *)

\* an object with the properties of full whose value is not Undef
MkObj(full) == [p \in {q \in DOMAIN full : full[q].t # "undef"} |-> full[p]]

Criterion(type, name, method, min, max, allowed) ==
    [criteriaType |-> type, name |-> name, validationMethod |-> method,
     minValue |-> min, maxValue |-> max, allowedValues |-> allowed]

CoreCriteria ==
    { Criterion("age", "Age", "range", Num(18), Num(60), <<>>),
      Criterion("income", "Income", "maximum", Undef, Num(250000), <<>>),
      Criterion("gender", "Gender", "list", Undef, Undef, <<"female">>),
      Criterion("disability", "Disability", "boolean", Undef, Undef, <<>>),
      Criterion("residence", "State", "exact", Str("Delhi"), Undef, <<>>),
      Criterion("other", "Other", "custom", Undef, Undef, <<>>) }

EligibilityProfiles ==
    { MkObj(f) : f \in
        [dateOfBirth : {Undef, Date(2000, 6, 15), Date(2007, 1, 1)},
         income : {Undef, Num(0), Num(1500000)},
         gender : {Undef, Str("female"), Str("male")},
         hasDisability : {Undef, Bool(TRUE), Bool(FALSE)},
         address : {Undef, Obj(<<>>), Obj([state |-> Str("Delhi")]),
                    Obj([state |-> Str("Kerala")])},
         other : {Undef, Str("other")}] }

Days == {<<2024, 6, 14>>, <<2024, 6, 15>>, <<2024, 6, 16>>}

\* single criteria that exercise every validation method, with each bound
\* absent (undefined), null or set
MethodCriteria ==
    { Criterion("income", "Income", m, lo, hi, <<>>) :
        m \in {"range", "exact", "minimum", "maximum", "boolean", "custom"},
        lo \in {Undef, Null, Num(18)}, hi \in {Undef, Null, Num(60)} }
    \cup { Criterion("age", "Age", m, Num(24), Num(23), <<>>) :
              m \in {"exact", "minimum", "maximum"} }
    \cup { Criterion("gender", "Gender", "list", Undef, Undef, l) :
              l \in {<<>>, <<"male", "female">>} }

MethodProfiles ==
    { MkObj(f) : f \in
        [income : {Undef, Null, Num(0), Num(17), Num(18), Num(60), Num(61)},
         dateOfBirth : {Undef, Date(2000, 6, 15), Date(2000, 5, 20), Date(2000, 7, 1)},
         gender : {Undef, Str("female"), Str("other")}] }

FeeRule(amount, currency, factors, categories, waiverDescription) ==
    [feeType |-> "application", name |-> "Application fee", description |-> Undef,
     amount |-> amount, currency |-> currency, variableFactors |-> factors,
     waiver |-> [eligibility |-> categories, description |-> waiverDescription]]

CoreFees ==
    { FeeRule(Rupees(1000), "INR", <<>>, <<>>, Undef),
      FeeRule(Rupees(200), "USD", <<"income">>, <<>>, Undef),
      FeeRule(Rupees(1000), "INR", <<"income">>, <<"senior">>, Str("Senior citizens")),
      FeeRule(Rupees(1000), "INR", <<"age">>, <<"bpl", "female">>, Str("Welfare waiver")),
      FeeRule(Rupees(1000), "INR", <<>>, <<"student", "senior">>, Undef) }

FactorNames == {"income", "age", "distance"}

SingleFees ==
    { FeeRule(Rupees(1000), "INR", factors, w[1], w[2]) :
        factors \in SeqUpTo(FactorNames, MaxFactors),
        w \in { <<<<>>, Undef>>,
                <<<<"senior">>, Str("Senior citizens")>>,
                <<<<"disability", "female">>, Str("Welfare waiver")>> } }

FeeProfiles ==
    { MkObj(f) : f \in
        [income : {Undef, Num(0), Num(250000), Num(300000), Num(500000),
                   Num(1000000), Num(1500000)},
         age : {Undef, Num(0), Num(17), Num(18), Num(60), Num(65)},
         isBPL : {Undef, Bool(TRUE)},
         gender : {Undef, Str("female"), Str("male")}] }

Requirement(type, mandatory, allowed, maxSize) ==
    [documentType |-> type, name |-> type, isMandatory |-> mandatory,
     allowedFileTypes |-> allowed, maxFileSizeKB |-> maxSize]

Document(type, file, size) == [type |-> type, file |-> file, sizeKB |-> Num(size)]

CoreRequirements ==
    { Requirement("aadhar", TRUE, <<<<"p", "d", "f">>>>, Num(100)),
      Requirement("aadhar", TRUE, <<>>, Undef),
      Requirement("pan", FALSE, <<<<"p", "d", "f">>, <<"j", "p", "g">>>>, Undef),
      Requirement("photo", TRUE, <<<<"J", "P", "G">>>>, Num(50)),
      Requirement("pan", FALSE, <<>>, Num(0)) }

CoreDocuments ==
    { Document("aadhar", <<"a", ".", "p", "d", "f">>, 100),
      Document("aadhar", <<"a", ".", "b", ".", "P", "D", "F">>, 101),
      Document("pan", <<"p", ".", "e", "x", "e">>, 10),
      Document("pan", <<"j", "p", "g">>, 10),
      Document("photo", <<"x", ".", "j", "p", "g">>, 50),
      Document("voter", <<"v", ".", "p", "d", "f">>, 1) }

EmptyService == [eligibilityCriteria |-> <<>>, fees |-> <<>>, requirements |-> <<>>]
NoResult == [op |-> "none", value |-> <<>>]

EngineMethods == {"checkEligibility", "calculateFees", "validateDocuments"}
NoneReturned == [m \in EngineMethods |-> NoResult]

\* the caller keeps the value that method m returned on the day now, and
\* whether it had called m before
Remember(m, v, now) ==
    [returned EXCEPT ![m] = [op |-> m, value |-> v, at |-> now,
                             again |-> returned[m] # NoResult]]

-----------------------------------------------------------------------------
(* The document store and the HTTP boundary, idle in the engine            *)
(* specifications                                                          *)

NoDoc == [exists |-> FALSE]
NoResponse == [op |-> "none", code |-> 0]

StoreIdle ==
    /\ services = <<>>
    /\ response = NoResponse
    /\ adminDeleteConfirmation = Undef

\* a review nobody has voted on; a new user account
NoVotes == [upvotes |-> 0, downvotes |-> 0, voters |-> <<>>]

ReviewIdle == helpfulness = NoVotes

AccountIdle ==
    /\ loginAttempts = 0
    /\ lockUntil = Undef
    /\ dateNow = 0
    /\ failedAttempts = 0

OthersIdle ==
    /\ language = "en"
    /\ ReviewIdle
    /\ AccountIdle

-----------------------------------------------------------------------------
(* Eligibility engine called directly: service.checkEligibility(userData) *)

InitElig ==
    /\ \/ /\ \E list \in SeqUpTo(CoreCriteria, MaxCriteria) :
                self = [EmptyService EXCEPT !.eligibilityCriteria = list]
          /\ userData \in EligibilityProfiles
       \/ /\ \E c \in MethodCriteria :
                self = [EmptyService EXCEPT !.eligibilityCriteria = <<c>>]
          /\ userData \in MethodProfiles
    /\ documents = Undef
    /\ today \in Days
    /\ result = NoResult
    /\ returned = NoneReturned
    /\ OthersIdle
    /\ StoreIdle

CallCheckEligibility ==
    /\ result' = [op |-> "checkEligibility",
                  value |-> checkEligibility(self, userData, today)]
    /\ returned' = Remember("checkEligibility", result'.value, today)
    /\ UNCHANGED <<self, userData, documents, today, storeVars, otherVars>>

NextElig == CallCheckEligibility

SpecElig == InitElig /\ [][NextElig]_vars

-----------------------------------------------------------------------------
(* Fee calculator called directly: service.calculateFees(userData) *)

InitFees ==
    /\ \E list \in SeqUpTo(CoreFees, MaxFees) \cup {<<f>> : f \in SingleFees} :
          self = [EmptyService EXCEPT !.fees = list]
    /\ userData \in FeeProfiles
    /\ documents = Undef
    /\ today \in Days
    /\ result = NoResult
    /\ returned = NoneReturned
    /\ OthersIdle
    /\ StoreIdle

\* the fee list with every amount overwritten by its adjusted amount
AdjustedInPlace(fees, u) ==
    [i \in 1..Len(fees) |->
        IF EligibleForWaiver(fees[i], u) THEN fees[i]
        ELSE [fees[i] EXCEPT !.amount = ApplyFactors(@, fees[i].variableFactors, u)]]

CallCalculateFeesMutant ==
    /\ result' = [op |-> "calculateFees", value |-> calculateFees(self, userData)]
    /\ returned' = Remember("calculateFees", result'.value, today)
    /\ self' = [self EXCEPT !.fees = AdjustedInPlace(@, userData)]
    /\ UNCHANGED <<userData, documents, today, storeVars, otherVars>>

CallCalculateFees ==
    /\ result' = [op |-> "calculateFees", value |-> calculateFees(self, userData)]
    /\ returned' = Remember("calculateFees", result'.value, today)
    /\ UNCHANGED <<self, userData, documents, today, storeVars, otherVars>>

NextFees == CallCalculateFees

SpecFees == InitFees /\ [][NextFees]_vars

-----------------------------------------------------------------------------
(* Document validator called directly: service.validateDocuments(documents) *)

InitDocs ==
    /\ \E list \in SeqUpTo(CoreRequirements, MaxRequirements) :
          self = [EmptyService EXCEPT !.requirements = list]
    /\ userData = <<>>
    /\ documents \in {Undef} \cup {Obj(d) : d \in SeqUpTo(CoreDocuments, MaxDocuments)}
    /\ today \in Days
    /\ result = NoResult
    /\ returned = NoneReturned
    /\ OthersIdle
    /\ StoreIdle

CallValidateDocuments ==
    /\ result' = [op |-> "validateDocuments", value |-> validateDocuments(self, documents)]
    /\ returned' = Remember("validateDocuments", result'.value, today)
    /\ UNCHANGED <<self, userData, documents, today, storeVars, otherVars>>

NextDocs == CallValidateDocuments

SpecDocs == InitDocs /\ [][NextDocs]_vars

-----------------------------------------------------------------------------
(* The three model methods called on one service in any order, any number  *)
(* of times, while the clock advances                                      *)

PureServices ==
    { [eligibilityCriteria |-> c, fees |-> f, requirements |-> r] :
        c \in { <<>>,
                <<Criterion("age", "Age", "exact", Num(24), Num(23), <<>>),
                  Criterion("income", "Income", "maximum", Undef, Num(250000), <<>>)>> },
        f \in { <<FeeRule(Rupees(1000), "INR", <<"income", "age">>, <<>>, Undef)>>,
                <<FeeRule(Rupees(1000), "INR", <<"income">>, <<"senior">>, Str("Senior citizens")),
                  FeeRule(Rupees(200), "USD", <<"income">>, <<>>, Undef)>> },
        r \in { <<Requirement("aadhar", TRUE, <<<<"p", "d", "f">>>>, Num(100))>> } }

PureProfiles ==
    { <<>>,
      [income |-> Num(1500000)],
      [dateOfBirth |-> Date(2000, 6, 15), income |-> Num(250000), age |-> Num(65),
       gender |-> Str("female")] }

PureDocuments ==
    { Undef,
      Obj(<<Document("aadhar", <<"a", ".", "p", "d", "f">>, 100)>>),
      Obj(<<Document("aadhar", <<"a", ".", "b", ".", "P", "D", "F">>, 101),
            Document("voter", <<"v", ".", "p", "d", "f">>, 1)>>) }

InitPure ==
    /\ self \in PureServices
    /\ userData \in PureProfiles
    /\ documents \in PureDocuments
    /\ today \in Days
    /\ result = NoResult
    /\ returned = NoneReturned
    /\ OthersIdle
    /\ StoreIdle

\* new Date() reads a later day
ClockAdvances ==
    /\ \E d \in Days : d[3] > today[3] /\ today' = d
    /\ UNCHANGED <<self, userData, documents, result, returned, storeVars, otherVars>>

NextPure ==
    \/ CallCheckEligibility
    \/ CallCalculateFees
    \/ CallValidateDocuments
    \/ ClockAdvances

SpecPure == InitPure /\ [][NextPure]_vars

-----------------------------------------------------------------------------
(* Service identifiers.  A generated id is an ObjectId, written as 24 hex   *)
(* digits; a slug (shortName) is any text of letters, digits, '_' and '-'.  *)

ObjectIdHexLength == 24
HexDigits == {"0", "1", "2", "3", "4", "5", "6", "7", "8", "9",
              "a", "b", "c", "d", "e", "f", "A", "B", "C", "D", "E", "F"}
Digits == <<"1", "2", "3", "4", "5", "6", "7", "8", "9">>

\* the id generated for the n-th document that is created
IdOf(n) == [i \in 1..ObjectIdHexLength |-> IF i = ObjectIdHexLength THEN Digits[n] ELSE "0"]

\* mongoose.Types.ObjectId.isValid(id) for a string id
IsValidObjectId(id) ==
    Len(id) = ObjectIdHexLength /\ \A i \in 1..Len(id) : id[i] \in HexDigits

WhiteSpace == {" "}

\* String.prototype.trim
Trim(s) ==
    LET solid == {i \in 1..Len(s) : s[i] \notin WhiteSpace}
    IN  IF solid = {} THEN <<>>
        ELSE SubSeq(s, CHOOSE i \in solid : \A j \in solid : i <= j,
                       CHOOSE i \in solid : \A j \in solid : j <= i)

\* s.replace(/\s+/g, '_'): every run of white space becomes one underscore
RECURSIVE ReplaceSpaces(_)
ReplaceSpaces(s) ==
    IF s = <<>> THEN <<>>
    ELSE IF Head(s) \in WhiteSpace
         THEN IF Len(s) > 1 /\ s[2] \in WhiteSpace THEN ReplaceSpaces(Tail(s))
              ELSE <<"_">> \o ReplaceSpaces(Tail(s))
         ELSE <<Head(s)>> \o ReplaceSpaces(Tail(s))

\* the pre('save') hook: shortName.trim().replace(/\s+/g, '_').toLowerCase()
FormatShortName(name) == ToLowerCase(ReplaceSpaces(Trim(name)))

Statuses == {"draft", "active", "inactive", "deprecated"}

SlugPan == <<"p", "a", "n">>
SlugPanUpper == <<"P", "A", "N">>
SlugHex == [i \in 1..ObjectIdHexLength |-> "a"]

\* shortName values accepted by the create route (/^[a-zA-Z0-9_-]+$/)
CreateNames == {SlugPan, SlugPanUpper, SlugHex}
\* shortName values an update body can carry (no route validation)
UpdateNames == {SlugPanUpper}
\* values of the :id route parameter
Identifiers == {IdOf(n) : n \in 1..MaxServices} \cup {SlugPan, SlugPanUpper, SlugHex}

TemplateCriteria == <<Criterion("income", "Income", "maximum", Undef, Num(250000), <<>>)>>
TemplateFees == <<FeeRule(Rupees(1000), "INR", <<"income">>, <<>>, Undef)>>

TemplateRequirements == <<Requirement("aadhar", TRUE, <<<<"p", "d", "f">>>>, Num(100))>>

\* a stored Service document: the fields the handlers below read or write
ServiceDoc(id, name, status) ==
    [exists |-> TRUE, id |-> id, shortName |-> name, status |-> status,
     eligibilityCriteria |-> TemplateCriteria, fees |-> TemplateFees,
     requirements |-> TemplateRequirements]

\* values of req.body.documents: absent, not an array, arrays
NonArrays == {Undef, Str("aadhar")}
RequestArrays ==
    { Obj(<<>>),
      Obj(<<Document("aadhar", <<"a", ".", "b", ".", "P", "D", "F">>, 101),
            Document("voter", <<"v", ".", "p", "d", "f">>, 1)>>) }

RequestProfiles == {[income |-> Num(1500000)]}

\* values of the x-confirmation-code header and of the permanent query parameter
ConfirmationCodes == {Undef, Str("secret"), Str("guess")}
PermanentFlags == {Undef, Str("true")}

\* one authenticated user per role; req.user.id is written Str(role)
Roles == {"user", "admin", "superAdmin"}

-----------------------------------------------------------------------------
(* Store queries.  A query answers the position of the document in the     *)
(* collection, 0 when there is none.                                       *)

findById(store, id) ==
    IF \E i \in 1..Len(store) : store[i].exists /\ store[i].id = id
    THEN CHOOSE i \in 1..Len(store) : store[i].exists /\ store[i].id = id
    ELSE 0

findOneByShortName(store, name) ==
    IF \E i \in 1..Len(store) : store[i].exists /\ store[i].shortName = name
    THEN CHOOSE i \in 1..Len(store) : store[i].exists /\ store[i].shortName = name
    ELSE 0

\* the lookup every service handler starts with
FindService(store, id) ==
    IF IsValidObjectId(id) THEN findById(store, id)
    ELSE findOneByShortName(store, ToLowerCase(id))

\* the unique index on shortName rejects the write of name into position k
DuplicateShortName(store, k, name) ==
    \E i \in 1..Len(store) : i # k /\ store[i].exists /\ store[i].shortName = name

\* the adminOnly route guard
AdminOnly(role) == role = "admin" \/ role = "superAdmin"

\* the role check inside deleteService, getServiceMetrics, batchUpdateServices
HandlerAdmin(role) == role = "admin"

Respond(op, code) == [op |-> op, code |-> code]

\* a 403 of an admin route: by the adminOnly guard or by the handler's own
\* role check
Denied(op, by) == [op |-> op, code |-> 403, by |-> by]

-----------------------------------------------------------------------------
(* Service handlers.  Every action is one request: the route's guards and  *)
(* the handler.  A response records the handler (op), the HTTP status      *)
(* (code) and the parts of the JSON body and of the request it answers     *)
(* that the properties below read.                                         *)

InitStore ==
    /\ services = <<>>
    /\ response = NoResponse
    /\ adminDeleteConfirmation \in {Undef, Str("secret")}

EngineIdle ==
    /\ self = EmptyService
    /\ userData = <<>>
    /\ documents = Undef
    /\ today = <<2024, 6, 14>>
    /\ result = NoResult
    /\ returned = NoneReturned
    /\ OthersIdle

Init == InitStore /\ EngineIdle

\* POST /api/services: adminOnly, validateServiceCreate, createService
CreateService ==
    /\ Len(services) < MaxServices
    /\ \/ /\ \E role \in Roles : ~AdminOnly(role)
          /\ response' = Respond("createService", 403)
          /\ UNCHANGED services
       \/ /\ \E role \in Roles : AdminOnly(role)
          /\ \E name \in CreateNames, status \in {"draft", "active"} :
                IF DuplicateShortName(services, 0, FormatShortName(name))
                THEN /\ response' = Respond("createService", 400)
                     /\ UNCHANGED services
                ELSE /\ services' = Append(services,
                             ServiceDoc(IdOf(Len(services) + 1), FormatShortName(name),
                                        status))
                     /\ response' = Respond("createService", 201)
    /\ UNCHANGED <<adminDeleteConfirmation, engineVars, otherVars>>

\* the fields of an update body that findByIdAndUpdate writes
ApplyUpdate(doc, body) ==
    [doc EXCEPT !.status = IF "status" \in DOMAIN body THEN body["status"] ELSE @,
                !.shortName = IF "shortName" \in DOMAIN body THEN Trim(body["shortName"]) ELSE @]

\* runValidators: the enum validator of status
UpdateValid(body) == "status" \in DOMAIN body => body["status"] \in Statuses

UpdateBodies ==
    {[status |-> st] : st \in {"active", "inactive", "archived"}}
        \cup {[shortName |-> n] : n \in UpdateNames}

\* PUT /api/services/:id: adminOnly, validateServiceUpdate, updateService
UpdateService ==
    /\ \/ /\ \E role \in Roles : ~AdminOnly(role)
          /\ response' = Respond("updateService", 403)
          /\ UNCHANGED services
       \/ /\ \E role \in Roles : AdminOnly(role)
          /\ \E id \in Identifiers, body \in UpdateBodies :
                LET k == findById(services, id)
                IN  IF ~IsValidObjectId(id)
                    THEN /\ response' = Respond("updateService", 500)
                         /\ UNCHANGED services
                    ELSE IF k = 0
                    THEN /\ response' = Respond("updateService", 404)
                         /\ UNCHANGED services
                    ELSE IF ~UpdateValid(body)
                    THEN /\ response' = Respond("updateService", 400)
                         /\ UNCHANGED services
                    ELSE IF DuplicateShortName(services, k,
                                               ApplyUpdate(services[k], body).shortName)
                    THEN /\ response' = Respond("updateService", 400)
                         /\ UNCHANGED services
                    ELSE /\ services' = [services EXCEPT ![k] = ApplyUpdate(@, body)]
                         /\ response' = Respond("updateService", 200)
    /\ UNCHANGED <<adminDeleteConfirmation, engineVars, otherVars>>

\* confirmationCode && confirmationCode === process.env.ADMIN_DELETE_CONFIRMATION
ConfirmationAcceptedMutant(code, token) == Truthy(code)

ConfirmationAccepted(code, token) == Truthy(code) /\ StrictEq(code, token)

\* the soft delete: status is set and save() runs the pre('save') hook
Deprecate(doc) ==
    [doc EXCEPT !.status = "deprecated", !.shortName = FormatShortName(@)]

\* DELETE /api/services/:id: adminOnly, deleteService
DeleteService ==
    \E role \in Roles :
        /\ IF ~AdminOnly(role)
           THEN /\ response' = Denied("deleteService", "adminOnly")
                /\ UNCHANGED services
           ELSE IF ~HandlerAdmin(role)
           THEN /\ response' = Denied("deleteService", "handler")
                /\ UNCHANGED services
           ELSE \E id \in Identifiers, permanent \in PermanentFlags,
                   code \in ConfirmationCodes :
                  LET k == FindService(services, id)
                      req == [permanent |-> permanent, code |-> code]
                  IN  IF k = 0
                      THEN /\ response' = Respond("deleteService", 404)
                           /\ UNCHANGED services
                      ELSE IF StrictEq(permanent, Str("true"))
                      THEN IF ~ConfirmationAccepted(code, adminDeleteConfirmation)
                           THEN /\ response' = [op |-> "deleteService", code |-> 400,
                                                target |-> k, request |-> req]
                                /\ UNCHANGED services
                           ELSE /\ services' = [services EXCEPT ![k] = NoDoc]
                                /\ response' = [op |-> "deleteService", code |-> 200,
                                                target |-> k, request |-> req,
                                                deletionType |-> "permanent"]
                      ELSE IF DuplicateShortName(services, k, Deprecate(services[k]).shortName)
                      THEN /\ response' = Respond("deleteService", 500)
                           /\ UNCHANGED services
                      ELSE /\ services' = [services EXCEPT ![k] = Deprecate(@)]
                           /\ response' = [op |-> "deleteService", code |-> 200,
                                           target |-> k, request |-> req,
                                           deletionType |-> "soft"]
        /\ UNCHANGED <<adminDeleteConfirmation, engineVars, otherVars>>

\* GET /api/services/:id/metrics: adminOnly, getServiceMetrics
GetServiceMetrics ==
    /\ \E role \in Roles :
          IF ~AdminOnly(role)
          THEN response' = Denied("getServiceMetrics", "adminOnly")
          ELSE IF ~HandlerAdmin(role)
          THEN response' = Denied("getServiceMetrics", "handler")
          ELSE \E id \in Identifiers :
                 LET k == FindService(services, id)
                 IN  IF k = 0
                     THEN response' = Respond("getServiceMetrics", 404)
                     ELSE response' = [op |-> "getServiceMetrics", code |-> 200,
                                       target |-> k,
                                       data |-> [id |-> services[k].id,
                                                 shortName |-> services[k].shortName,
                                                 status |-> services[k].status]]
    /\ UNCHANGED <<services, adminDeleteConfirmation, engineVars, otherVars>>

\* service.status !== 'active' rejects the request
ServiceActiveMutant(doc) == doc.status # "deprecated"

ServiceActive(doc) == doc.status = "active"

\* POST /api/services/:id/check-eligibility: protect, checkEligibility
CheckEligibilityRequest ==
    \E id \in Identifiers, u \in RequestProfiles :
        LET k == FindService(services, id)
        IN  /\ IF k = 0
               THEN response' = [op |-> "checkEligibility", code |-> 404, target |-> 0]
               ELSE IF ~ServiceActive(services[k])
               THEN response' = [op |-> "checkEligibility", code |-> 400, target |-> k]
               ELSE response' = [op |-> "checkEligibility", code |-> 200, target |-> k,
                                 data |-> checkEligibility(services[k], u, today)]
            /\ UNCHANGED <<services, adminDeleteConfirmation, engineVars, otherVars>>

\* POST /api/services/:id/calculate-fees: protect, calculateFees
CalculateFeesRequest ==
    \E id \in Identifiers, u \in RequestProfiles :
        LET k == FindService(services, id)
        IN  /\ IF k = 0
               THEN response' = [op |-> "calculateFees", code |-> 404, target |-> 0]
               ELSE IF ~ServiceActive(services[k])
               THEN response' = [op |-> "calculateFees", code |-> 400, target |-> k]
               ELSE response' = [op |-> "calculateFees", code |-> 200, target |-> k,
                                 data |-> calculateFees(services[k], u)]
            /\ UNCHANGED <<services, adminDeleteConfirmation, engineVars, otherVars>>

\* Array.isArray(documents), for a value that is not falsy
IsArray(docs) == docs.t = "obj"

\* POST /api/services/:id/validate-documents: protect, the route's
\* validators, validateDocuments
ValidateDocumentsRequestMutant ==
    /\ \E id \in Identifiers, docs \in NonArrays \cup RequestArrays :
          LET k == FindService(services, id)
          IN  IF k = 0
              THEN response' = [op |-> "validateDocuments", code |-> 404,
                                request |-> docs]
              ELSE response' = [op |-> "validateDocuments", code |-> 200,
                                request |-> docs,
                                data |-> validateDocuments(services[k], docs)]
    /\ UNCHANGED <<services, adminDeleteConfirmation, engineVars, otherVars>>

ValidateDocumentsRequest ==
    /\ \/ \E docs \in NonArrays :
             /\ ~IsArray(docs)
             /\ response' = [op |-> "validateDocuments", code |-> 400, request |-> docs]
       \/ \E id \in Identifiers, docs \in RequestArrays :
             /\ IsArray(docs)
             /\ LET k == FindService(services, id)
                IN  IF k = 0
                    THEN response' = [op |-> "validateDocuments", code |-> 404,
                                      request |-> docs]
                    ELSE response' = [op |-> "validateDocuments", code |-> 200,
                                      request |-> docs,
                                      data |-> validateDocuments(services[k], docs)]
    /\ UNCHANGED <<services, adminDeleteConfirmation, engineVars, otherVars>>

MaxBatch == 2

RestrictedFields == {"_id", "shortName", "createdBy", "createdAt"}

\* the restrictedFields.forEach that deletes the critical fields
WithoutRestricted(updateData) ==
    [p \in DOMAIN updateData \ RestrictedFields |-> updateData[p]]

BatchBodies ==
    {<<>>, [status |-> "inactive"], [status |-> "archived"], [shortName |-> SlugPanUpper]}

\* values of req.body.services: up to MaxBatch identifiers, each listed once,
\* in ascending order
BatchLists ==
    {[i \in 1..Len(ns) |-> IdOf(ns[i])] :
        ns \in {s \in SeqUpTo(1..MaxServices, MaxBatch) :
                   \A i \in 1..(Len(s) - 1) : s[i] < s[i + 1]}}

\* one iteration of the loop over the service identifiers
BatchStep(acc, identifier, updateData) ==
    LET k == FindService(acc.store, identifier)
    IN  IF k = 0
        THEN [acc EXCEPT !.notFound = @ + 1]
        ELSE IF ~UpdateValid(updateData)
        THEN [acc EXCEPT !.failed = @ + 1]
        ELSE [acc EXCEPT !.updated = @ + 1,
                         !.store[k] = ApplyUpdate(@, updateData)]

RECURSIVE BatchLoop(_, _, _)
BatchLoop(acc, list, updateData) ==
    IF list = <<>> THEN acc
    ELSE BatchLoop(BatchStep(acc, Head(list), updateData), Tail(list), updateData)

\* the state of the session when the response is sent
Session(transaction, ended) == [transaction |-> transaction, ended |-> ended]

\* POST /api/services/batch-update: adminOnly, batchUpdateServices.  The
\* writes of the loop are made in the transaction and reach the collection
\* when it is committed.
BatchUpdateServices ==
    \E role \in Roles :
        /\ IF ~AdminOnly(role)
           THEN /\ response' = Denied("batchUpdateServices", "adminOnly")
                /\ UNCHANGED services
           ELSE IF ~HandlerAdmin(role)
           THEN /\ response' = [op |-> "batchUpdateServices", code |-> 403,
                                by |-> "handler",
                                session |-> Session("open", FALSE)]
                /\ UNCHANGED services
           ELSE \E list \in BatchLists, data \in BatchBodies :
                  LET updateData == WithoutRestricted(data)
                      acc == BatchLoop([store |-> services, updated |-> 0, failed |-> 0,
                                        notFound |-> 0], list, updateData)
                  IN  IF Len(list) = 0 \/ DOMAIN data = {}
                      THEN /\ response' = [op |-> "batchUpdateServices", code |-> 400,
                                           session |-> Session("open", FALSE)]
                           /\ UNCHANGED services
                      ELSE IF acc.updated > 0
                      THEN /\ services' = acc.store
                           /\ response' = [op |-> "batchUpdateServices", code |-> 200,
                                           session |-> Session("committed", TRUE),
                                           success |-> TRUE, total |-> Len(list),
                                           updated |-> acc.updated, failed |-> acc.failed,
                                           notFound |-> acc.notFound]
                      ELSE /\ UNCHANGED services
                           /\ response' = [op |-> "batchUpdateServices", code |-> 200,
                                           session |-> Session("aborted", TRUE),
                                           success |-> FALSE, total |-> Len(list),
                                           updated |-> acc.updated, failed |-> acc.failed,
                                           notFound |-> acc.notFound]
        /\ UNCHANGED <<adminDeleteConfirmation, engineVars, otherVars>>

Next ==
    \/ CreateService
    \/ UpdateService
    \/ DeleteService
    \/ CheckEligibilityRequest
    \/ CalculateFeesRequest
    \/ BatchUpdateServices

Spec == Init /\ [][Next]_vars

-----------------------------------------------------------------------------
(* The routes behind the adminOnly guard whose handlers check the role     *)
(* again, on a collection that createService fills                         *)

NextAdmin ==
    \/ CreateService
    \/ DeleteService
    \/ GetServiceMetrics
    \/ BatchUpdateServices

SpecAdmin == Init /\ [][NextAdmin]_vars

-----------------------------------------------------------------------------
(* Document validation of one stored service, reached through the endpoint *)
(* and by calling the model method directly                                *)

ValidatedService == ServiceDoc(IdOf(1), SlugPan, "active")

InitValidate ==
    /\ \E reqs \in SeqUpTo(CoreRequirements, MaxRequirements) :
          /\ self = [EmptyService EXCEPT !.requirements = reqs]
          /\ services = <<[ValidatedService EXCEPT !.requirements = reqs]>>
    /\ userData = <<>>
    /\ documents \in NonArrays \cup {Null} \cup RequestArrays
    /\ today = <<2024, 6, 15>>
    /\ result = NoResult
    /\ returned = NoneReturned
    /\ response = NoResponse
    /\ adminDeleteConfirmation = Undef
    /\ OthersIdle

NextValidate ==
    \/ CallValidateDocuments
    \/ ValidateDocumentsRequest

SpecValidate == InitValidate /\ [][NextValidate]_vars

-----------------------------------------------------------------------------
(* Multilingual text: the getFallbackText closure of getDetailsInLanguage  *)
(* and getServiceSummary.  A MultilingualText is an object from language   *)
(* codes to strings.                                                       *)

getFallbackTextMutant(field, lang) ==
    IF ~Truthy(field) THEN Null
    ELSE IF Truthy(Prop(field.v, lang)) THEN Prop(field.v, lang)
    ELSE Null

getFallbackText(field, lang) ==
    IF ~Truthy(field) THEN Null
    ELSE IF Truthy(Prop(field.v, lang)) THEN Prop(field.v, lang)
    ELSE IF Truthy(Prop(field.v, "en")) THEN Prop(field.v, "en")
    ELSE Null

\* the languages a field of the model may carry, and those that are requested
FieldLanguages == {"en", "hi", "ta"}
Languages == FieldLanguages \cup {"bn"}
Texts == {Str(""), Str("Hello"), Str("Namaste")}
MultilingualTexts ==
    {Undef, Null} \cup
    UNION { { Obj(f) : f \in [present -> Texts] } : present \in SUBSET FieldLanguages }

InitText ==
    /\ \E field \in MultilingualTexts : self = MkObj([name |-> field])
    /\ language \in Languages
    /\ userData = <<>>
    /\ documents = Undef
    /\ today = <<2024, 6, 15>>
    /\ result = NoResult
    /\ returned = NoneReturned
    /\ services = <<>>
    /\ response = NoResponse
    /\ adminDeleteConfirmation = Undef
    /\ ReviewIdle
    /\ AccountIdle

CallGetFallbackText ==
    /\ result' = [op |-> "getFallbackText",
                  value |-> getFallbackText(Prop(self, "name"), language)]
    /\ UNCHANGED <<self, userData, documents, today, returned, storeVars, otherVars>>

NextText == CallGetFallbackText

SpecText == InitText /\ [][NextText]_vars

-----------------------------------------------------------------------------
(* Helpfulness votes of one review: ReviewSchema.methods.addVote and       *)
(* removeVote (server/src/models/Review.js), called one after the other on *)
(* the same document.  A voter entry is [user, vote]; its timestamp is     *)
(* left out.                                                               *)

MaxVoters == 3
Voters == 1..MaxVoters
VoteTypes == {"up", "down", "sideways"}

\* voters.findIndex(voter => voter.user.toString() === userId.toString()),
\* counted from 1; 0 stands for -1
FindVoter(voters, userId) ==
    IF \E i \in 1..Len(voters) : voters[i].user = userId
    THEN CHOOSE i \in 1..Len(voters) :
            /\ voters[i].user = userId
            /\ \A j \in 1..(i - 1) : voters[j].user # userId
    ELSE 0

\* the vote the user holds, "none" without one
ExistingVote(h, userId) ==
    IF FindVoter(h.voters, userId) = 0 THEN "none"
    ELSE h.voters[FindVoter(h.voters, userId)].vote

\* voters.filter(v => v.vote === voteType).length
CountVotes(voters, voteType) ==
    Cardinality({i \in 1..Len(voters) : voters[i].vote = voteType})

\* the two assignments "Update vote counts"
Recount(h) ==
    [h EXCEPT !.upvotes = CountVotes(h.voters, "up"),
              !.downvotes = CountVotes(h.voters, "down")]

\* Math.max(0, n - 1)
Decrement(n) == IF n - 1 > 0 THEN n - 1 ELSE 0

\* voters.splice(k, 1)
Splice(voters, k) == [i \in 1..(Len(voters) - 1) |-> IF i < k THEN voters[i] ELSE voters[i + 1]]

\* addVote for a vote type that is 'up' or 'down'
addVoteMutant(h, userId, voteType) ==
    Recount([h EXCEPT !.voters = Append(@, [user |-> userId, vote |-> voteType])])

addVote(h, userId, voteType) ==
    LET k == FindVoter(h.voters, userId)
    IN  IF k # 0
        THEN IF h.voters[k].vote = voteType
             THEN h
             ELSE LET less == IF h.voters[k].vote = "up"
                              THEN [h EXCEPT !.upvotes = Decrement(@)]
                              ELSE [h EXCEPT !.downvotes = Decrement(@)]
                  IN  Recount([less EXCEPT !.voters[k] = [user |-> userId, vote |-> voteType]])
        ELSE Recount([h EXCEPT !.voters = Append(@, [user |-> userId, vote |-> voteType])])

removeVote(h, userId) ==
    LET k == FindVoter(h.voters, userId)
    IN  IF k = 0 THEN h
        ELSE Recount([h EXCEPT !.voters = Splice(@, k)])

InitVotes ==
    /\ helpfulness = NoVotes
    /\ self = EmptyService
    /\ userData = <<>>
    /\ documents = Undef
    /\ today = <<2024, 6, 15>>
    /\ result = NoResult
    /\ returned = NoneReturned
    /\ StoreIdle
    /\ language = "en"
    /\ AccountIdle

\* review.addVote(userId, voteType); result keeps the call and the vote the
\* user held before it
AddVote ==
    /\ \E userId \in Voters, voteType \in VoteTypes :
          /\ result' = [op |-> "addVote",
                        value |-> [user |-> userId, vote |-> voteType,
                                   existing |-> ExistingVote(helpfulness, userId),
                                   threw |-> voteType \notin {"up", "down"}]]
          /\ IF voteType \notin {"up", "down"}
             THEN UNCHANGED helpfulness
             ELSE helpfulness' = addVote(helpfulness, userId, voteType)
    /\ UNCHANGED <<self, userData, documents, today, returned, storeVars,
                   language, accountVars>>

\* review.removeVote(userId)
RemoveVote ==
    /\ \E userId \in Voters :
          /\ result' = [op |-> "removeVote",
                        value |-> [user |-> userId,
                                   existing |-> ExistingVote(helpfulness, userId)]]
          /\ helpfulness' = removeVote(helpfulness, userId)
    /\ UNCHANGED <<self, userData, documents, today, returned, storeVars,
                   language, accountVars>>

NextVotes ==
    \/ AddVote
    \/ RemoveVote

SpecVotes == InitVotes /\ [][NextVotes]_vars

-----------------------------------------------------------------------------
(* Login attempts of one user account: UserSchema.methods                  *)
(* incrementLoginAttempts, resetLoginAttempts and isLocked.  Time is       *)
(* counted in half hours from the first call (dateNow is Date.now());      *)
(* lockUntil is Undef or Num of an instant later than 0.                   *)

MaxAttempts == 7
MaxClock == 6

\* 60 * 60 * 1000 milliseconds
Hour == 2
LockThreshold == 5

isLocked(lock, now) == Truthy(lock) /\ GreaterThan(lock, Num(now))

\* the account fields after incrementLoginAttempts at the instant now
incrementLoginAttemptsMutant(account, now) ==
    IF isLocked(account.lockUntil, now) THEN account
    ELSE [loginAttempts |-> account.loginAttempts + 1,
          lockUntil |-> IF account.loginAttempts + 1 >= LockThreshold - 1
                        THEN Num(now + Hour)
                        ELSE account.lockUntil]

incrementLoginAttempts(account, now) ==
    IF isLocked(account.lockUntil, now) THEN account
    ELSE [loginAttempts |-> account.loginAttempts + 1,
          lockUntil |-> IF account.loginAttempts + 1 >= LockThreshold
                        THEN Num(now + Hour)
                        ELSE account.lockUntil]

resetLoginAttempts(account, now) == [loginAttempts |-> 0, lockUntil |-> Undef]

Account == [loginAttempts |-> loginAttempts, lockUntil |-> lockUntil]

InitLogin ==
    /\ AccountIdle
    /\ self = EmptyService
    /\ userData = <<>>
    /\ documents = Undef
    /\ today = <<2024, 6, 15>>
    /\ result = NoResult
    /\ returned = NoneReturned
    /\ StoreIdle
    /\ language = "en"
    /\ ReviewIdle

\* user.incrementLoginAttempts() after a failed login; failedAttempts
\* counts the attempts recorded since the last reset
IncrementLoginAttempts ==
    /\ loginAttempts < MaxAttempts
    /\ result' = [op |-> "incrementLoginAttempts",
                  value |-> [locked |-> isLocked(lockUntil, dateNow)]]
    /\ loginAttempts' = incrementLoginAttempts(Account, dateNow).loginAttempts
    /\ lockUntil' = incrementLoginAttempts(Account, dateNow).lockUntil
    /\ failedAttempts' = IF isLocked(lockUntil, dateNow) THEN failedAttempts
                         ELSE failedAttempts + 1
    /\ UNCHANGED <<dateNow, self, userData, documents, today, returned, storeVars,
                   language, reviewVars>>

\* user.resetLoginAttempts() after a successful login
ResetLoginAttempts ==
    /\ result' = [op |-> "resetLoginAttempts",
                  value |-> [locked |-> isLocked(lockUntil, dateNow)]]
    /\ loginAttempts' = resetLoginAttempts(Account, dateNow).loginAttempts
    /\ lockUntil' = resetLoginAttempts(Account, dateNow).lockUntil
    /\ failedAttempts' = 0
    /\ UNCHANGED <<dateNow, self, userData, documents, today, returned, storeVars,
                   language, reviewVars>>

\* half an hour passes
TimePasses ==
    /\ dateNow < MaxClock
    /\ dateNow' = dateNow + 1
    /\ UNCHANGED <<loginAttempts, lockUntil, failedAttempts, engineVars, storeVars,
                   language, reviewVars>>

NextLogin ==
    \/ IncrementLoginAttempts
    \/ ResetLoginAttempts
    \/ TimePasses

SpecLogin == InitLogin /\ [][NextLogin]_vars

-----------------------------------------------------------------------------
(* Properties of the eligibility engine (SpecElig) *)

ListOf(v, field) == IF field \in DOMAIN v THEN v[field] ELSE <<>>

\* the profile field a criterion of the given type reads is present in u
ProfileFieldPresent(type, u) ==
    CASE type = "age" -> "dateOfBirth" \in DOMAIN u
      [] type = "residence" -> "address" \in DOMAIN u /\ "state" \in DOMAIN u["address"].v
      [] type = "education" -> "education" \in DOMAIN u /\ "level" \in DOMAIN u["education"].v
      [] type = "marital" -> "maritalStatus" \in DOMAIN u
      [] type = "disability" -> "hasDisability" \in DOMAIN u
      [] OTHER -> type \in DOMAIN u

MissingFieldName(type) == IF type = "age" THEN "dateOfBirth" ELSE type

C2_MissingDataNotEvaluated ==
    (result.op = "checkEligibility" /\ Len(self.eligibilityCriteria) > 0) =>
        LET v == result.value
            absent == SelectSeq(self.eligibilityCriteria,
                                LAMBDA c : ~ProfileFieldPresent(c.criteriaType, userData))
        IN  /\ Len(v.missingData) = Len(absent)
            /\ \A j \in 1..Len(absent) :
                  v.missingData[j] = [field |-> MissingFieldName(absent[j].criteriaType),
                                      criteria |-> absent[j].name]
            /\ \A k \in 1..Len(v.failedCriteria) :
                  ProfileFieldPresent(v.failedCriteria[k].type, userData)

C2_Witness ==
    /\ result.op = "checkEligibility"
    /\ \E i \in 1..Len(self.eligibilityCriteria) :
          /\ self.eligibilityCriteria[i].validationMethod = "boolean"
          /\ ~ProfileFieldPresent(self.eligibilityCriteria[i].criteriaType, userData)
    /\ Len(result.value.missingData) = 1
    /\ Len(result.value.failedCriteria) = 1

\* the age on the day now of a person born on birth: the difference of the
\* years, one less when the anniversary of this year is still to come
RefAge(now, birth) ==
    (now[1] - birth[1]) -
        (IF now[2] * 100 + now[3] < birth[2] * 100 + birth[3] THEN 1 ELSE 0)

\* the criterion reads a number (an age or a numeric income) from the profile
HasNumber(c, u) ==
    \/ c.criteriaType = "age" /\ "dateOfBirth" \in DOMAIN u
    \/ c.criteriaType = "income" /\ "income" \in DOMAIN u /\ u["income"].t = "num"

NumberOf(c, u, now) ==
    IF c.criteriaType = "age" THEN RefAge(now, u["dateOfBirth"].v) ELSE u["income"].v

\* the criterion is listed in failedCriteria / in missingData of the result v
Failed(v, c) ==
    \E k \in 1..Len(ListOf(v, "failedCriteria")) :
        /\ v.failedCriteria[k].type = c.criteriaType
        /\ v.failedCriteria[k].name = c.name

Missing(v, c) ==
    \E k \in 1..Len(ListOf(v, "missingData")) :
        /\ v.missingData[k].field = MissingFieldName(c.criteriaType)
        /\ v.missingData[k].criteria = c.name

Passed(v, c) == ~Failed(v, c) /\ ~Missing(v, c)

Unset(bound) == bound.t \in {"undef", "null"}

\* C11: a range criterion with both bounds set passes exactly when
\* minValue <= userValue <= maxValue, both bounds inclusive (with 18 and 60:
\* 17 fails, 18 and 60 pass, 61 fails).
C11_RangeInclusive ==
    result.op = "checkEligibility" =>
        \A i \in 1..Len(self.eligibilityCriteria) :
            LET c == self.eligibilityCriteria[i]
                n == NumberOf(c, userData, today)
            IN  (/\ c.validationMethod = "range"
                 /\ c.minValue.t = "num" /\ c.maxValue.t = "num"
                 /\ HasNumber(c, userData)) =>
                    (Passed(result.value, c) <=> (c.minValue.v <= n /\ n <= c.maxValue.v))

C11_Witness ==
    /\ result.op = "checkEligibility"
    /\ self.eligibilityCriteria =
          <<Criterion("income", "Income", "range", Num(18), Num(60), <<>>)>>
    /\ Prop(userData, "income") = Num(18)
    /\ result.value.eligible = "true"
    /\ result.value.failedCriteria = <<>>

\* C12: a range criterion treats an unset bound as unbounded: it passes
\* exactly when (minValue is unset or userValue >= minValue) and (maxValue is
\* unset or userValue <= maxValue); with both unset it passes for every
\* present user value.
C12_UnsetBoundUnbounded ==
    result.op = "checkEligibility" =>
        \A i \in 1..Len(self.eligibilityCriteria) :
            LET c == self.eligibilityCriteria[i]
                n == NumberOf(c, userData, today)
            IN  (/\ c.validationMethod = "range"
                 /\ c.minValue.t \in {"undef", "null", "num"}
                 /\ c.maxValue.t \in {"undef", "null", "num"}
                 /\ HasNumber(c, userData)) =>
                    (Passed(result.value, c) <=>
                        /\ (Unset(c.minValue) \/ n >= c.minValue.v)
                        /\ (Unset(c.maxValue) \/ n <= c.maxValue.v))

\* C13: for an age criterion the user value is the age computed from
\* dateOfBirth on the day of the evaluation: the difference of the calendar
\* years, minus one exactly when today's (month, day) precedes the birth
\* (month, day).  Born 2000-06-15: 23 on 2024-06-14, 24 on 2024-06-15 and on
\* 2024-06-16.
C13_AgeFromDateOfBirth ==
    (result.op = "checkEligibility" /\ "dateOfBirth" \in DOMAIN userData) =>
        LET v == result.value
            age == RefAge(today, userData["dateOfBirth"].v)
        IN  /\ \A k \in 1..Len(ListOf(v, "failedCriteria")) :
                  v.failedCriteria[k].type = "age" => v.failedCriteria[k].userValue = Num(age)
            /\ \A i \in 1..Len(self.eligibilityCriteria) :
                  LET c == self.eligibilityCriteria[i]
                  IN  c.criteriaType = "age" =>
                        /\ ~Missing(v, c)
                        /\ c.validationMethod = "exact" =>
                              (Passed(v, c) <=> age = c.minValue.v)
                        /\ c.validationMethod = "minimum" =>
                              (Passed(v, c) <=> age >= c.minValue.v)
                        /\ c.validationMethod = "maximum" =>
                              (Passed(v, c) <=> age <= c.maxValue.v)
            /\ (/\ userData["dateOfBirth"] = Date(2000, 6, 15)
                /\ self.eligibilityCriteria =
                      <<Criterion("age", "Age", "exact", Num(24), Num(23), <<>>)>>) =>
                  IF today = <<2024, 6, 14>>
                  THEN Len(v.failedCriteria) = 1 /\ v.failedCriteria[1].userValue = Num(23)
                  ELSE v.failedCriteria = <<>> /\ v.eligible = "true"

C13_Witness ==
    /\ result.op = "checkEligibility"
    /\ today = <<2024, 6, 15>>
    /\ Prop(userData, "dateOfBirth") = Date(2000, 6, 15)
    /\ self.eligibilityCriteria =
          <<Criterion("age", "Age", "maximum", Num(24), Num(23), <<>>)>>
    /\ Len(result.value.failedCriteria) = 1
    /\ result.value.failedCriteria[1].userValue = Num(24)

\* the entries (field failedCriteria or missingData) that each criterion of
\* the list gets when it is evaluated alone, in list order
RECURSIVE EachAlone(_, _, _, _)
EachAlone(list, u, now, field) ==
    IF list = <<>> THEN <<>>
    ELSE ListOf(checkEligibility([EmptyService EXCEPT !.eligibilityCriteria = <<Head(list)>>],
                                 u, now), field)
            \o EachAlone(Tail(list), u, now, field)

\* C14: checkEligibility traverses the whole criteria list without early
\* exit: every criterion is classified exactly once as passed, failed or
\* missing data, failedCriteria is the sub-list of the failing criteria and
\* missingData the sub-list of those with absent data, both in the order of
\* the criteria; a failing or missing criterion never keeps a later one from
\* being evaluated.
C14_FullTraversal ==
    (result.op = "checkEligibility" /\ Len(self.eligibilityCriteria) > 0) =>
        LET v == result.value
            list == self.eligibilityCriteria
        IN  /\ v.failedCriteria = EachAlone(list, userData, today, "failedCriteria")
            /\ v.missingData = EachAlone(list, userData, today, "missingData")
            /\ \A i \in 1..Len(list) :
                  Len(EachAlone(<<list[i]>>, userData, today, "failedCriteria"))
                    + Len(EachAlone(<<list[i]>>, userData, today, "missingData")) <= 1
            /\ \A k \in 1..Len(v.failedCriteria) : ~Missing(v, [criteriaType |-> v.failedCriteria[k].type,
                                                                name |-> v.failedCriteria[k].name])

C14_Witness ==
    /\ result.op = "checkEligibility"
    /\ Len(self.eligibilityCriteria) = 2
    /\ Len(result.value.failedCriteria) = 1
    /\ Len(result.value.missingData) = 1
    /\ result.value.failedCriteria[1].type = self.eligibilityCriteria[1].criteriaType
    /\ result.value.missingData[1].criteria = self.eligibilityCriteria[2].name

\* the value of the profile field that a criterion reads, when it is present
RefValue(c, u, now) ==
    CASE c.criteriaType = "age" -> Num(RefAge(now, u["dateOfBirth"].v))
      [] c.criteriaType = "residence" -> u["address"].v["state"]
      [] c.criteriaType = "education" -> u["education"].v["level"]
      [] c.criteriaType = "marital" -> u["maritalStatus"]
      [] c.criteriaType = "disability" -> u["hasDisability"]
      [] OTHER -> u[c.criteriaType]

\* the reference table of the validation methods other than range
RefPass(c, x) ==
    CASE c.validationMethod = "exact" -> x = c.minValue
      [] c.validationMethod = "minimum" -> x.v >= c.minValue.v
      [] c.validationMethod = "maximum" -> x.v <= c.maxValue.v
      [] c.validationMethod = "list" ->
            \E j \in 1..Len(c.allowedValues) : x = Str(c.allowedValues[j])
      [] c.validationMethod = "boolean" ->
            x \notin {Bool(FALSE), Num(0), Str(""), Null}
      [] c.validationMethod = "custom" -> TRUE

\* the comparison of the table is between two numbers
RefApplies(c, x) ==
    /\ c.validationMethod \in {"exact", "minimum", "maximum", "list", "boolean", "custom"}
    /\ c.validationMethod = "minimum" => (x.t = "num" /\ c.minValue.t = "num")
    /\ c.validationMethod = "maximum" => (x.t = "num" /\ c.maxValue.t = "num")

\* C16: for every criterion whose user value is present, the outcome of the
\* validation methods other than range is that of the reference table: exact
\* passes iff userValue equals minValue, minimum iff userValue >= minValue,
\* maximum iff userValue <= maxValue, list iff userValue is one of
\* allowedValues, boolean iff userValue is truthy (a present false value
\* fails, it is not missing data), custom always.
C16_MethodTable ==
    result.op = "checkEligibility" =>
        \A i \in 1..Len(self.eligibilityCriteria) :
            LET c == self.eligibilityCriteria[i]
            IN  ProfileFieldPresent(c.criteriaType, userData) =>
                  LET x == RefValue(c, userData, today)
                  IN  RefApplies(c, x) =>
                        /\ ~Missing(result.value, c)
                        /\ Passed(result.value, c) <=> RefPass(c, x)

C16_Witness ==
    /\ result.op = "checkEligibility"
    /\ Len(self.eligibilityCriteria) = 1
    /\ self.eligibilityCriteria[1].validationMethod = "boolean"
    /\ Prop(userData, "hasDisability") = Bool(FALSE)
    /\ result.value.missingData = <<>>
    /\ Len(result.value.failedCriteria) = 1
    /\ result.value.eligible = "false"

-----------------------------------------------------------------------------
(* Properties of the fee calculator (SpecFees) *)

RECURSIVE SumAmounts(_)
SumAmounts(entries) ==
    IF entries = <<>> THEN 0 ELSE Head(entries).amount + SumAmounts(Tail(entries))

\* the user belongs to the waiver category
InCategory(category, u) ==
    CASE category = "bpl" -> "isBPL" \in DOMAIN u /\ u["isBPL"] = Bool(TRUE)
      [] category = "senior" -> "age" \in DOMAIN u /\ u["age"].v >= 60
      [] category = "student" -> "isStudent" \in DOMAIN u /\ u["isStudent"] = Bool(TRUE)
      [] category = "disability" -> "hasDisability" \in DOMAIN u /\ u["hasDisability"] = Bool(TRUE)
      [] category = "female" -> "gender" \in DOMAIN u /\ u["gender"] = Str("female")
      [] OTHER -> FALSE

AnyCategoryMatches(fee, u) ==
    \E i \in 1..Len(fee.waiver.eligibility) : InCategory(fee.waiver.eligibility[i], u)

\* C3: a fee rule with a non-empty waiver category set is fully waived as soon
\* as any declared category matches the user: it is recorded in waivers with
\* its base amount, is absent from breakdown, adds nothing to totalAmount and
\* none of its variable factors is applied.
C3_WaivedWhenAnyCategoryMatches ==
    result.op = "calculateFees" =>
        LET v == result.value
            waived == SelectSeq(self.fees, LAMBDA f : AnyCategoryMatches(f, userData))
        IN  waived # <<>> =>
              /\ "waivers" \in DOMAIN v
              /\ Len(v.waivers) = Len(waived)
              /\ \A j \in 1..Len(waived) : v.waivers[j].amount = waived[j].amount
              /\ Len(v.breakdown) = Len(self.fees) - Len(waived)
              /\ v.totalAmount = SumAmounts(v.breakdown)

\* the multiplier, as numerator over 4, that the income factor is said to apply
IncomeMultiplier(u) ==
    IF "income" \notin DOMAIN u THEN 4
    ELSE IF u["income"].v < 300000 THEN 2
    ELSE IF u["income"].v > 1000000 THEN 6
    ELSE 4

\* C4: for a non-waived rule carrying the variable factor "income", whenever
\* userData.income is present (0 and the thresholds included) the amount is
\* multiplied by 0.5 when income < 300000, by 1.5 when income > 1000000 and is
\* unchanged in between; when income is absent the amount is unchanged.
C4_IncomeFactor ==
    (/\ result.op = "calculateFees"
     /\ Len(self.fees) = 1
     /\ self.fees[1].variableFactors = <<"income">>
     /\ ~AnyCategoryMatches(self.fees[1], userData)) =>
        /\ Len(result.value.breakdown) = 1
        /\ result.value.breakdown[1].amount * 4 = self.fees[1].amount * IncomeMultiplier(userData)

\* the multiplier, as numerator over 4, that the age factor is said to apply
AgeMultiplier(u) ==
    IF "age" \notin DOMAIN u THEN 4
    ELSE IF u["age"].v < 18 THEN 2
    ELSE IF u["age"].v >= 60 THEN 3
    ELSE 4

\* C17: for a non-waived rule carrying the variable factor "age", whenever
\* userData.age is present (0 included) the amount is multiplied by 0.5 when
\* age < 18, by 0.75 when age >= 60 and is unchanged when 18 <= age < 60; when
\* age is absent the amount is unchanged.
C17_AgeFactor ==
    (/\ result.op = "calculateFees"
     /\ Len(self.fees) = 1
     /\ self.fees[1].variableFactors = <<"age">>
     /\ ~AnyCategoryMatches(self.fees[1], userData)) =>
        /\ Len(result.value.breakdown) = 1
        /\ result.value.breakdown[1].amount * 4 = self.fees[1].amount * AgeMultiplier(userData)

\* the multiplier, as numerator over 4, that a listed factor is said to apply
FactorMultiplier(factor, u) ==
    IF factor = "income" THEN IncomeMultiplier(u)
    ELSE IF factor = "age" THEN AgeMultiplier(u)
    ELSE 4

RECURSIVE ProductOfMultipliers(_, _)
ProductOfMultipliers(factors, u) ==
    IF factors = <<>> THEN 1
    ELSE FactorMultiplier(Head(factors), u) * ProductOfMultipliers(Tail(factors), u)

\* C25: for a non-waived rule the adjusted amount is the base amount times
\* the multiplier of each listed variable factor, compounding in list order
\* without normalization or clamping: a factor listed twice is applied
\* twice, income and age factors compound, and a factor with an
\* unrecognized name contributes multiplier 1.
C25_FactorsCompound ==
    (/\ result.op = "calculateFees"
     /\ Len(self.fees) = 1
     /\ ~AnyCategoryMatches(self.fees[1], userData)) =>
        /\ Len(result.value.breakdown) = 1
        /\ result.value.breakdown[1].amount * Pow(4, Len(self.fees[1].variableFactors))
             = self.fees[1].amount * ProductOfMultipliers(self.fees[1].variableFactors, userData)

\* processing the rule raises: its waiver matches the user and carries no
\* description
Raises(fee, u) == AnyCategoryMatches(fee, u) /\ fee.waiver.description = Undef

\* C27: calculateFees always returns a value; when processing some fee rule
\* raises, the value is the error result (totalAmount 0, currency INR, empty
\* breakdown, an error text) without the amounts and waivers accumulated for
\* the other rules; when no rule raises, the value carries no error.
C27_ErrorResultOnException ==
    (result.op = "calculateFees" /\ Len(self.fees) > 0) =>
        IF \E i \in 1..Len(self.fees) : Raises(self.fees[i], userData)
        THEN result.value = [totalAmount |-> 0, currency |-> "INR", breakdown |-> <<>>,
                             error |-> "Error calculating fees"]
        ELSE "error" \notin DOMAIN result.value

C27_Witness ==
    /\ result.op = "calculateFees"
    /\ Len(self.fees) = 2
    /\ ~AnyCategoryMatches(self.fees[1], userData)
    /\ self.fees[1].currency = "USD"
    /\ Raises(self.fees[2], userData)
    /\ result.value.totalAmount = 0
    /\ result.value.currency = "INR"
    /\ "waivers" \notin DOMAIN result.value

\* C18: calculateFees accounts for every fee rule exactly once: a waived rule
\* is listed in waivers, every other rule in breakdown, none in both and none
\* in neither, and totalAmount is the sum of the amounts listed in breakdown,
\* the adjusted amounts of the rules that are not waived.
C18_EveryRuleOnce ==
    (result.op = "calculateFees" /\ Len(self.fees) > 0) =>
        LET v == result.value
            waived == SelectSeq(self.fees, LAMBDA f : AnyCategoryMatches(f, userData))
            charged == SelectSeq(self.fees, LAMBDA f : ~AnyCategoryMatches(f, userData))
        IN  /\ Len(ListOf(v, "waivers")) = Len(waived)
            /\ Len(v.breakdown) = Len(charged)
            /\ \A j \in 1..Len(charged) :
                  v.breakdown[j].amount = ApplyFactors(charged[j].amount,
                                                      charged[j].variableFactors, userData)
            /\ v.totalAmount = SumAmounts(v.breakdown)

\* C19: the currency of a calculateFees result is the currency of the first
\* fee rule (INR when it has none), whatever the currencies of the later
\* rules and whether or not the first rule is waived; the amounts of rules in
\* other currencies are added into the same totalAmount.
C19_CurrencyOfFirstRule ==
    (result.op = "calculateFees" /\ Len(self.fees) > 0) =>
        LET v == result.value
            charged == SelectSeq(self.fees, LAMBDA f : ~AnyCategoryMatches(f, userData))
        IN  /\ v.currency = IF self.fees[1].currency = "" THEN "INR"
                             ELSE self.fees[1].currency
            /\ v.totalAmount =
                  SumAmounts([j \in 1..Len(charged) |->
                      [amount |-> ApplyFactors(charged[j].amount,
                                               charged[j].variableFactors, userData)]])

-----------------------------------------------------------------------------
(* Properties of the document validator (SpecDocs) *)

Submitted(type, docs) == \E i \in 1..Len(docs) : docs[i].type = type

\* C5: every mandatory requirement for which no submitted document has the
\* same type appears in missingMandatory and makes valid false, even when all
\* submitted documents pass their own checks; a mandatory requirement that has
\* a submitted document of its type never appears in missingMandatory.
C5_MissingMandatory ==
    (result.op = "validateDocuments" /\ documents.t = "obj") =>
        LET v == result.value
            lacking == SelectSeq(self.requirements,
                                 LAMBDA r : r.isMandatory /\ ~Submitted(r.documentType, documents.v))
        IN  /\ Len(v.missingMandatory) = Len(lacking)
            /\ \A j \in 1..Len(lacking) : v.missingMandatory[j].type = lacking[j].documentType
            /\ lacking # <<>> => v.valid = FALSE
            /\ \A j \in 1..Len(v.missingMandatory) :
                  ~Submitted(v.missingMandatory[j].type, documents.v)

C5_Witness ==
    /\ result.op = "validateDocuments"
    /\ documents.t = "obj"
    /\ Len(result.value.missingMandatory) > 0
    /\ Len(result.value.validDocuments) > 0
    /\ result.value.invalidDocuments = <<>>
    /\ result.value.valid = FALSE

\* no requirement of the service has the type of the document
Unrequired(reqs, d) == \A i \in 1..Len(reqs) : reqs[i].documentType # d.type

\* the document has a required type and fails the file-type or the size check
\* of the first requirement of its type
FailsCheck(reqs, d) ==
    /\ ~Unrequired(reqs, d)
    /\ LET k == CHOOSE i \in 1..Len(reqs) :
                    /\ reqs[i].documentType = d.type
                    /\ \A j \in 1..(i - 1) : reqs[j].documentType # d.type
           r == reqs[k]
       IN  \/ /\ r.allowedFileTypes # <<>>
              /\ \A j \in 1..Len(r.allowedFileTypes) :
                    r.allowedFileTypes[j] # ToLowerCase(SplitPop(d.file))
           \/ /\ r.maxFileSizeKB.t = "num" /\ r.maxFileSizeKB.v # 0
              /\ d.sizeKB.v > r.maxFileSizeKB.v

SubmittedDocuments == IF documents.t = "obj" THEN documents.v ELSE <<>>

\* the statement of C20 about one result of validateDocuments
UnrequiredNeverInvalidates(v) ==
    LET docs == SubmittedDocuments
        reqs == self.requirements
        notRequired == SelectSeq(ListOf(v, "invalidDocuments"),
                                 LAMBDA e : e.reason = "not required")
        unrequired == SelectSeq(docs, LAMBDA d : Unrequired(reqs, d))
    IN  /\ Len(notRequired) = Len(unrequired)
        /\ \A j \in 1..Len(unrequired) : notRequired[j].type = unrequired[j].type
        /\ (v.valid = FALSE) <=>
              \/ Len(v.missingMandatory) > 0
              \/ \E i \in 1..Len(docs) : FailsCheck(reqs, docs[i])

RequirementOf(reqs, d) ==
    reqs[CHOOSE i \in 1..Len(reqs) :
            /\ reqs[i].documentType = d.type
            /\ \A j \in 1..(i - 1) : reqs[j].documentType # d.type]

\* the extension of the file is none of the allowed types, letter case apart
RefTypeRejected(reqs, d) ==
    /\ ~Unrequired(reqs, d)
    /\ LET r == RequirementOf(reqs, d)
       IN  /\ r.allowedFileTypes # <<>>
           /\ \A j \in 1..Len(r.allowedFileTypes) :
                 ToLowerCase(r.allowedFileTypes[j]) # ToLowerCase(SplitPop(d.file))

\* the types of the entries of a list, in order
TypesOf(list) == [j \in 1..Len(list) |-> list[j].type]

\* C21: when the matching requirement has a non-empty allowedFileTypes, a
\* submitted document is rejected (listed in invalidDocuments, valid = false)
\* iff its file extension, the text after the last '.', is not one of the
\* allowed types compared without regard to letter case, on either side.
C21_FileTypeCaseInsensitive ==
    (result.op = "validateDocuments" /\ documents.t = "obj") =>
        LET v == result.value
            rejected == SelectSeq(documents.v, LAMBDA d : RefTypeRejected(self.requirements, d))
        IN  /\ TypesOf(SelectSeq(v.invalidDocuments, LAMBDA e : e.reason = "file type"))
                  = TypesOf(rejected)
            /\ rejected # <<>> => v.valid = FALSE

\* the document has a required type and the file-type check let it through
PassedTypeCheck(reqs, d) ==
    /\ ~Unrequired(reqs, d)
    /\ LET r == RequirementOf(reqs, d)
       IN  \/ r.allowedFileTypes = <<>>
           \/ \E j \in 1..Len(r.allowedFileTypes) :
                 r.allowedFileTypes[j] = ToLowerCase(SplitPop(d.file))

\* the requirement specifies a size limit (a limit of 0 is read as none)
SpecifiesLimit(r) == r.maxFileSizeKB.t = "num" /\ r.maxFileSizeKB.v # 0

RefSizeRejected(reqs, d) ==
    /\ PassedTypeCheck(reqs, d)
    /\ SpecifiesLimit(RequirementOf(reqs, d))
    /\ d.sizeKB.v > RequirementOf(reqs, d).maxFileSizeKB.v

-----------------------------------------------------------------------------
(* Properties of the service handlers (Spec) *)

\* C6: check-eligibility and calculate-fees run the rules engine only for an
\* active service: a found service in another status is answered 400 without
\* a verdict or fee result, and a lookup that finds nothing is answered 404.
C6_EngineOnlyForActive ==
    response.op \in {"checkEligibility", "calculateFees"} =>
        /\ response.code \in {200, 400, 404}
        /\ (response.code = 404) <=> (response.target = 0)
        /\ response.code = 200 =>
              /\ services[response.target].exists
              /\ services[response.target].status = "active"
        /\ response.code = 400 =>
              /\ services[response.target].exists
              /\ services[response.target].status \in {"draft", "inactive", "deprecated"}
        /\ ("data" \in DOMAIN response) <=> (response.code = 200)

C6_Witness ==
    /\ response.op = "calculateFees"
    /\ response.code = 400
    /\ services[response.target].status = "inactive"

\* the request is a permanent delete carrying the configured confirmation token
ConfirmedPermanent(req) ==
    /\ req.permanent = Str("true")
    /\ adminDeleteConfirmation.t = "str"
    /\ req.code = adminDeleteConfirmation

\* C7: a service document leaves the store only by a delete request with
\* permanent=true and a confirmation code equal to the configured token; every
\* other successful delete leaves the document stored with status deprecated,
\* and a permanent request with a missing or wrong code changes nothing.
C7_PermanentDeleteGated ==
    [][/\ \A k \in 1..Len(services) :
             (services[k].exists /\ ~services'[k].exists) =>
                 /\ response'.op = "deleteService"
                 /\ response'.code = 200
                 /\ response'.target = k
                 /\ ConfirmedPermanent(response'.request)
       /\ (response'.op = "deleteService" /\ "request" \in DOMAIN response') =>
             IF ConfirmedPermanent(response'.request)
             THEN response'.code = 200
             ELSE IF response'.request.permanent = Str("true")
             THEN response'.code = 400 /\ services' = services
             ELSE /\ response'.code = 200
                  /\ services'[response'.target].exists
                  /\ services'[response'.target].status = "deprecated"]_vars

C7_Witness ==
    /\ response.op = "deleteService"
    /\ response.code = 200
    /\ response.deletionType = "permanent"
    /\ ~services[response.target].exists

\* C8: a batch update is atomic: either every requested service is updated or
\* none is.
C8_BatchAllOrNothing ==
    (response.op = "batchUpdateServices" /\ response.code = 200) =>
        response.updated = 0 \/ response.updated = response.total

\* C9: no update, batch update or soft delete changes the shortName of a
\* stored service.
C9_SlugImmutable ==
    [][\A k \in 1..Len(services) :
          (services[k].exists /\ services'[k].exists) =>
              services'[k].shortName = services[k].shortName]_vars

\* the upper-case letter of every lower-case letter
UpperOf ==
    [c \in {LowerCase[i] : i \in 1..Len(LowerCase)} |->
        UpperCase[CHOOSE i \in 1..Len(LowerCase) : LowerCase[i] = c]]
ToUpperCase(s) == [i \in 1..Len(s) |-> IF s[i] \in DOMAIN UpperOf THEN UpperOf[s[i]] ELSE s[i]]

\* C10: for every stored service, a lookup by its id and a lookup by its
\* shortName written in any letter case resolve to that service.
C10_LookupByIdOrSlug ==
    \A k \in 1..Len(services) :
        services[k].exists =>
            /\ FindService(services, services[k].id) = k
            /\ \A name \in {services[k].shortName, ToLowerCase(services[k].shortName),
                            ToUpperCase(services[k].shortName)} :
                  FindService(services, name) = k

\* C26: every batch-update request that started a store transaction has, when
\* it responds, committed or aborted the transaction and ended the session,
\* on the 403, 400 and 200 paths alike.
C26_TransactionTerminated ==
    (response.op = "batchUpdateServices" /\ "session" \in DOMAIN response) =>
        /\ response.session.transaction \in {"committed", "aborted"}
        /\ response.session.ended

-----------------------------------------------------------------------------
(* Properties of the admin routes (SpecAdmin) *)

\* C28: every requester the adminOnly guard admits is admitted by the role
\* check of deleteService, getServiceMetrics and batchUpdateServices: a 403
\* of these routes is always the guard's, never the handler's.
C28_GuardAndHandlerAgree ==
    (/\ response.op \in {"deleteService", "getServiceMetrics", "batchUpdateServices"}
     /\ response.code = 403) =>
        response.by = "adminOnly"

-----------------------------------------------------------------------------
(* Properties of document validation at the endpoint and in the method      *)
(* (SpecValidate)                                                          *)

\* the value is a validation result: it carries the verdict and the three lists
IsValidationResult(v) ==
    {"valid", "validDocuments", "invalidDocuments", "missingMandatory"} \subseteq DOMAIN v

\* The endpoint answers a documents value that is not an array with 400 and
\* no result, an array for a service it does not find with 404, and an
\* array for a service it finds with 200 and a result in which invalid
\* documents are data
EndpointRejectsMalformed ==
    response.op = "validateDocuments" =>
        IF response.request.t # "obj"
        THEN response.code = 400 /\ "data" \notin DOMAIN response
        ELSE \/ response.code = 404 /\ "data" \notin DOMAIN response
             \/ /\ response.code = 200
                /\ IsValidationResult(response.data)
                /\ "error" \notin DOMAIN response.data

\* positions of the mandatory requirements of the service
MandatoryAt == { j \in 1..Len(self.requirements) : self.requirements[j].isMandatory }

-----------------------------------------------------------------------------
(* Properties of multilingual resolution (SpecText) *)

\* the text of the field in a language is present and non-empty
HasText(field, lang) ==
    /\ field.t = "obj"
    /\ lang \in DOMAIN field.v
    /\ field.v[lang].v # ""

\* C24: resolution returns the text of the requested language when it is
\* present and non-empty, otherwise the English text when that is present
\* and non-empty, otherwise null; null for an absent field; the English text
\* for {en: "Hello"} requested in "hi", and null for {}
C24_LanguageFallback ==
    result.op = "getFallbackText" =>
        LET field == IF "name" \in DOMAIN self THEN self.name ELSE Undef
        IN  /\ HasText(field, language) => result.value = field.v[language]
            /\ (~HasText(field, language) /\ HasText(field, "en")) =>
                    result.value = field.v["en"]
            /\ (~HasText(field, language) /\ ~HasText(field, "en")) =>
                    result.value = Null
            /\ field = Undef => result.value = Null
            /\ (field = Obj([l \in {"en"} |-> Str("Hello")]) /\ language = "hi") =>
                    result.value = Str("Hello")
            /\ field = Obj(<<>>) => result.value = Null

C24_Witness ==
    /\ result.op = "getFallbackText"
    /\ Prop(self, "name") = Obj([l \in {"en"} |-> Str("Hello")])
    /\ language = "hi"
    /\ result.value = Str("Hello")

-----------------------------------------------------------------------------
(* Properties of the helpfulness votes (SpecVotes) *)

EntriesOf(userId) ==
    {i \in 1..Len(helpfulness.voters) : helpfulness.voters[i].user = userId}

\* each user has at most one entry and the counts are the numbers of entries
VotesCounted ==
    /\ \A u \in Voters : Cardinality(EntriesOf(u)) <= 1
    /\ helpfulness.upvotes =
          Cardinality({i \in 1..Len(helpfulness.voters) : helpfulness.voters[i].vote = "up"})
    /\ helpfulness.downvotes =
          Cardinality({i \in 1..Len(helpfulness.voters) : helpfulness.voters[i].vote = "down"})

\* what one call does to a vote the user already holds, or does not hold
VoteStep ==
    /\ (/\ result'.op = "addVote"
        /\ result'.value.existing = result'.value.vote) =>
            helpfulness' = helpfulness
    /\ (/\ result'.op = "addVote"
        /\ result'.value.existing = "down"
        /\ result'.value.vote = "up") =>
            /\ helpfulness'.upvotes = helpfulness.upvotes + 1
            /\ helpfulness'.downvotes = helpfulness.downvotes - 1
            /\ Len(helpfulness'.voters) = Len(helpfulness.voters)
    /\ (/\ result'.op = "addVote"
        /\ result'.value.existing = "up"
        /\ result'.value.vote = "down") =>
            /\ helpfulness'.upvotes = helpfulness.upvotes - 1
            /\ helpfulness'.downvotes = helpfulness.downvotes + 1
            /\ Len(helpfulness'.voters) = Len(helpfulness.voters)
    /\ (/\ result'.op = "removeVote"
        /\ result'.value.existing = "none") =>
            helpfulness' = helpfulness

\* C29: after any sequence of addVote and removeVote calls, starting from no
\* votes, each user has at most one entry in voters, upvotes is the number
\* of 'up' entries and downvotes the number of 'down' entries; repeating a
\* user's current vote changes nothing, switching a vote moves exactly one
\* count from one side to the other, and removeVote for a user who has not
\* voted changes nothing.
C29_VotesConsistent == [](VotesCounted) /\ [][VoteStep]_vars

C29_Witness ==
    /\ result.op = "addVote"
    /\ result.value.existing = "down"
    /\ result.value.vote = "up"
    /\ helpfulness.upvotes = 2
    /\ helpfulness.downvotes = 1
    /\ Len(helpfulness.voters) = 3

-----------------------------------------------------------------------------
(* Properties of the login attempts (SpecLogin) *)

\* the lock is in force at the present instant
LockedNow == lockUntil # Undef /\ lockUntil.v > dateNow

\* a lock is there only after five recorded attempts
LockedOnlyAfterFive == lockUntil # Undef => failedAttempts >= 5

\* what one call does to the account
LoginStep ==
    /\ lockUntil' # lockUntil /\ lockUntil' # Undef =>
            /\ lockUntil'.v = dateNow + Hour
            /\ failedAttempts' >= 5
    /\ (result'.op = "incrementLoginAttempts" /\ LockedNow) =>
            /\ loginAttempts' = loginAttempts
            /\ lockUntil' = lockUntil
    /\ result'.op = "resetLoginAttempts" =>
            /\ loginAttempts' = 0
            /\ lockUntil' = Undef
            /\ ~LockedNow'

====
